---------------------------- MODULE Spec2Model ----------------------------
(*
  A model of tools_webrtc/autoroller/roll_deps.py: the entry index built by
  BuildDepsentryDict and the diff computed by CalculateChangedDeps.

  Strings are modelled by values that keep the order and the structure the
  code relies on:
    - in the diff, a path, a url, a revision, a package name and a version
      value are naturals; their numeric order stands for the lexicographic
      order of the strings (sorted() at roll_deps.py:306 compares them field
      by field);
    - in BuildDepsentryDict, which splits them, a DEPS string is the sequence
      of its characters, the character '@' being 0;
    - a CIPD version string is the record [prefix, value]: "version:1" is
      [prefix |-> "version:", value |-> 1];
    - the standard output of `git ls-remote <url> HEAD` is the sequence of the
      tab-separated fields of its first line.
*)
EXTENDS Integers, Sequences, FiniteSets, TLC

VARIABLES
  webrtc_entries,  \* CalculateChangedDeps: BuildDepsentryDict(webrtc_deps)
  new_cr_entries,  \* CalculateChangedDeps: BuildDepsentryDict(new_cr_deps)
  todo,            \* keys of webrtc_entries the for loop has not visited yet
  result,          \* CalculateChangedDeps: the local list `result`
  commands,        \* the `git ls-remote` commands _RunCommand has run so far
  pc,              \* position of the call: "loop", "returned", "raised"
  error,           \* the exception that ended the call and the path it was
                   \* raised for; exception "none" while there is none
  returned,        \* the list handed to the caller once pc = "returned"
  deps_dict,       \* BuildDepsentryDict: the raw parsed DEPS dict
  depsentry_dict,  \* BuildDepsentryDict: the dict it returns
  message_args,    \* GenerateCommitMessage: its arguments
  commit_msg,      \* GenerateCommitMessage: the lines of the string returned
  match_args,      \* GetMatchingDepsEntries: depsentry_dict and dir_path
  match_todo,      \* GetMatchingDepsEntries: keys the loop has not visited
  match_result,    \* GetMatchingDepsEntries: the local list `result`
  opts,            \* main: the parsed command line
  world,           \* main: the checkout and the remote as main finds them
  ran              \* main: the commands it has run and the files it has
                   \* written, in order

vars == <<webrtc_entries, new_cr_entries, todo, result, commands, pc, error,
          returned, deps_dict, depsentry_dict, message_args, commit_msg,
          match_args, match_todo, match_result, opts, world, ran>>

\* The state of a call of CalculateChangedDeps.
diffVars == <<webrtc_entries, new_cr_entries, todo, result, commands,
              returned>>

\* The state of a call of BuildDepsentryDict.
buildVars == <<deps_dict, depsentry_dict>>

\* The state of a call of GenerateCommitMessage.
messageVars == <<message_args, commit_msg>>

\* The state of a call of GetMatchingDepsEntries.
matchVars == <<match_args, match_todo, match_result>>

\* The state of a run of main.
mainVars == <<opts, world, ran>>

\* The state of the functions that are not being called.
DiffIdle ==
  /\ webrtc_entries = <<>> /\ new_cr_entries = <<>> /\ todo = {}
  /\ result = <<>> /\ commands = <<>> /\ returned = <<>>
BuildIdle == deps_dict = <<>> /\ depsentry_dict = <<>>
MessageIdle == message_args = <<>> /\ commit_msg = <<>>
MatchIdle == match_args = <<>> /\ match_todo = {} /\ match_result = <<>>
MainIdle == opts = <<>> /\ world = <<>> /\ ran = <<>>

-----------------------------------------------------------------------------
(* Bounds of the model *)

\* The local and the remote index hold at most this many entries together.
MaxEntries == 3

\* Three paths in lexicographic order; path 2 stands for
\* 'src/examples/androidtests/third_party/gradle'.
Paths == {1, 2, 3}
Urls == {1, 2}
Revisions == {1, 2}
PackageNames == {1, 2}
VersionValues == {1, 2}

-----------------------------------------------------------------------------
(* Data: the namedtuples of roll_deps.py:59-64 *)

DONT_AUTOROLL_THESE == {2}

DepsEntry(path, url, revision) ==
  [kind |-> "DepsEntry", path |-> path, url |-> url, revision |-> revision]

CipdDepsEntry(path, packages) ==
  [kind |-> "CipdDepsEntry", path |-> path, packages |-> packages]

ChangedDep(path, url, current_rev, new_rev) ==
  [kind |-> "ChangedDep", path |-> path, url |-> url,
   current_rev |-> current_rev, new_rev |-> new_rev]

ChangedCipdPackage(path, package, current_version, new_version) ==
  [kind |-> "ChangedCipdPackage", path |-> path, package |-> package,
   current_version |-> current_version, new_version |-> new_version]

\* A version string of a DEPS file, 'version:<value>'.
VersionString(value) == [prefix |-> "version:", value |-> value]

\* One element of a CIPD entry's 'packages' list.
Package(name, value) == [package |-> name, version |-> VersionString(value)]

\* The 'packages' lists: every ordering of every non-empty set of package
\* names (a package is identified by its name within its path), each package
\* with any version.
PackageLists ==
  UNION { { [i \in 1..n |-> Package(names[i], values[i])] :
              names \in { s \in [1..n -> PackageNames] :
                            \A i, j \in 1..n : i # j => s[i] # s[j] },
              values \in [1..n -> VersionValues] } :
          n \in 1..Cardinality(PackageNames) }

\* What a DEPS file can say about one path: a git dependency url@revision or
\* a CIPD dependency with its packages.
RawDeps ==
  { <<"git", u, r>> : u \in Urls, r \in Revisions }
    \cup { <<"cipd", pkgs>> : pkgs \in PackageLists }

\* The entry BuildDepsentryDict stores for `path` (roll_deps.py:229-233).
EntryOf(path, dep) ==
  IF dep[1] = "cipd" THEN CipdDepsEntry(path, dep[2])
                     ELSE DepsEntry(path, dep[2], dep[3])

\* The indexes (dicts path -> entry) whose key set is S.
IndexesOn(S) == { [p \in S |-> EntryOf(p, f[p])] : f \in [S -> RawDeps] }

-----------------------------------------------------------------------------
(* Pure helpers of the diff *)

\* _RemoveStringPrefix: the string without its prefix; the assert fails when
\* the string does not start with the prefix.
_RemoveStringPrefix(string, substring) ==
  IF string.prefix = substring
    THEN [raised |-> FALSE, value |-> string.value]
    ELSE [raised |-> TRUE, value |-> 0]

\* The set of package names of a 'packages' list.
PackageSet(pkgs) == { pkgs[i].package : i \in 1..Len(pkgs) }

\* The pairs (old_pkg, new_pkg) in the order of the nested for loops.
PackagePairs(old_pkgs, new_pkgs) ==
  [k \in 1..(Len(old_pkgs) * Len(new_pkgs)) |->
     <<old_pkgs[((k - 1) \div Len(new_pkgs)) + 1],
       new_pkgs[((k - 1) % Len(new_pkgs)) + 1]>>]

\* _FindChangedCipdPackages without the package-set assert: a plausible slip.
FindChangedCipdPackagesNoSetCheck(path, old_pkgs, new_pkgs) ==
  LET pairs == PackagePairs(old_pkgs, new_pkgs)
      old_version(pr) == _RemoveStringPrefix(pr[1].version, "version:")
      new_version(pr) == _RemoveStringPrefix(pr[2].version, "version:")
      changed(pr) == /\ pr[1].package = pr[2].package
                     /\ old_version(pr).value # new_version(pr).value
      hits == SelectSeq(pairs, changed)
  IN [raised |-> FALSE,
      yielded |-> [i \in 1..Len(hits) |->
                     ChangedCipdPackage(path, hits[i][1].package,
                                        old_version(hits[i]).value,
                                        new_version(hits[i]).value)]]

\* _FindChangedCipdPackages comparing the raw version strings of a package
\* with those of ANY package of the other list: a plausible slip.
FindChangedCipdPackagesAnyPair(path, old_pkgs, new_pkgs) ==
  LET pairs == PackagePairs(old_pkgs, new_pkgs)
      changed(pr) == pr[1].version.value # pr[2].version.value
      hits == SelectSeq(pairs, changed)
  IN IF PackageSet(old_pkgs) # PackageSet(new_pkgs)
       THEN [raised |-> TRUE, yielded |-> <<>>]
       ELSE [raised |-> FALSE,
             yielded |-> [i \in 1..Len(hits) |->
                            ChangedCipdPackage(path, hits[i][1].package,
                                               hits[i][1].version.value,
                                               hits[i][2].version.value)]]

\* _FindChangedCipdPackages without `old_version != new_version`, so that
\* every package is yielded: a plausible slip.
FindChangedCipdPackagesUnchangedToo(path, old_pkgs, new_pkgs) ==
  LET pairs == PackagePairs(old_pkgs, new_pkgs)
      old_version(pr) == _RemoveStringPrefix(pr[1].version, "version:")
      new_version(pr) == _RemoveStringPrefix(pr[2].version, "version:")
      changed(pr) == pr[1].package = pr[2].package
      hits == SelectSeq(pairs, changed)
  IN IF \/ PackageSet(old_pkgs) # PackageSet(new_pkgs)
        \/ \E k \in 1..Len(pairs) :
             old_version(pairs[k]).raised \/ new_version(pairs[k]).raised
       THEN [raised |-> TRUE, yielded |-> <<>>]
       ELSE [raised |-> FALSE,
             yielded |-> [i \in 1..Len(hits) |->
                            ChangedCipdPackage(path, hits[i][1].package,
                                               old_version(hits[i]).value,
                                               new_version(hits[i]).value)]]

\* _FindChangedCipdPackages: what the generator yields, and whether one of
\* its asserts fails (the package sets differ, or a version lacks 'version:').
_FindChangedCipdPackages(path, old_pkgs, new_pkgs) ==
  LET pairs == PackagePairs(old_pkgs, new_pkgs)
      old_version(pr) == _RemoveStringPrefix(pr[1].version, "version:")
      new_version(pr) == _RemoveStringPrefix(pr[2].version, "version:")
      changed(pr) == /\ pr[1].package = pr[2].package
                     /\ old_version(pr).value # new_version(pr).value
      hits == SelectSeq(pairs, changed)
  IN IF \/ PackageSet(old_pkgs) # PackageSet(new_pkgs)
        \/ \E k \in 1..Len(pairs) :
             old_version(pairs[k]).raised \/ new_version(pairs[k]).raised
       THEN [raised |-> TRUE, yielded |-> <<>>]
       ELSE [raised |-> FALSE,
             yielded |-> [i \in 1..Len(hits) |->
                            ChangedCipdPackage(path, hits[i][1].package,
                                               old_version(hits[i]).value,
                                               new_version(hits[i]).value)]]

\* A change as the tuple Python compares: the four fields in order.
AsTuple(c) ==
  IF c.kind = "ChangedCipdPackage"
    THEN <<c.path, c.package, c.current_version, c.new_version>>
    ELSE <<c.path, c.url, c.current_rev, c.new_rev>>

\* Python's tuple order: the first differing field decides.
TupleLess(s, t) ==
  \E i \in 1..4 : /\ s[i] < t[i]
                  /\ \A j \in 1..(i - 1) : s[j] = t[j]

\* `seq` with `c` inserted after the last element that is not greater.
RECURSIVE Insert(_, _)
Insert(seq, c) ==
  IF seq = <<>> THEN <<c>>
  ELSE IF TupleLess(AsTuple(c), AsTuple(seq[Len(seq)]))
    THEN Append(Insert(SubSeq(seq, 1, Len(seq) - 1), c), seq[Len(seq)])
    ELSE Append(seq, c)

RECURSIVE InsertionSort(_)
InsertionSort(seq) ==
  IF seq = <<>> THEN <<>>
  ELSE Insert(InsertionSort(SubSeq(seq, 1, Len(seq) - 1)), seq[Len(seq)])

\* The list returned as it was appended to: a plausible slip.
Unsorted(seq) == seq

\* sorted(result): stable, ascending in the tuple order.
Sorted(seq) == InsertionSort(seq)

-----------------------------------------------------------------------------
(* CalculateChangedDeps, one action per branch of its loop *)

\* Every path is rolled: the skip-list test left out, a plausible slip.
NeverSkipped(path) == FALSE

\* `path in DONT_AUTOROLL_THESE`
Skipped(path) == path \in DONT_AUTOROLL_THESE

\* No path is looked up in Chromium's DEPS: a plausible slip.
NeverShared(path) == FALSE

\* `cr_deps_entry = new_cr_entries.get(path)` is an entry, not None.
Shared(path) == path \in DOMAIN new_cr_entries

\* `type(cr_deps_entry) is type(webrtc_deps_entry)`
SameType(cr_deps_entry, webrtc_deps_entry) ==
  cr_deps_entry.kind = webrtc_deps_entry.kind

\* The url assert made only when there is something to roll: a plausible slip.
UrlCheckedOnlyOnRoll(webrtc_deps_entry, cr_deps_entry) ==
  \/ webrtc_deps_entry.revision = cr_deps_entry.revision
  \/ webrtc_deps_entry.url = cr_deps_entry.url

\* `assert webrtc_deps_entry.url == cr_deps_entry.url`
SameUrl(webrtc_deps_entry, cr_deps_entry) ==
  webrtc_deps_entry.url = cr_deps_entry.url

\* The local revision taken as the new one: a plausible slip.
OwnRevision(webrtc_deps_entry, cr_deps_entry) == webrtc_deps_entry.revision

\* `new_rev = cr_deps_entry.revision`
ChromiumRevision(webrtc_deps_entry, cr_deps_entry) == cr_deps_entry.revision

\* The outcomes of `git ls-remote <url> HEAD`: exit code 0 and the line
\* '<revision>\tHEAD', or a failure with nothing on stdout (0 is the empty
\* string).
LsRemoteOutcomes ==
  { [returncode |-> 0, stdout |-> <<r, "HEAD">>] : r \in Revisions }
    \cup { [returncode |-> 1, stdout |-> <<0>>] }

\* _RunCommand called with ignore_exit_code=True: a plausible slip.
ExitCodeIgnored(outcome) == FALSE

\* _RunCommand: `not ignore_exit_code and p.returncode != 0` ends the process.
CommandExits(outcome) == outcome.returncode # 0

\* `stdout.strip().split('\t')[0]`
HeadRevision(stdout) == stdout[1]

\* The change appended whether or not the revision moved: a plausible slip.
AlwaysUpdate(webrtc_deps_entry, new_rev) ==
  <<ChangedDep(webrtc_deps_entry.path, webrtc_deps_entry.url,
               webrtc_deps_entry.revision, new_rev)>>

\* "Check if an update is necessary": what is appended to `result`.
CheckUpdate(webrtc_deps_entry, new_rev) ==
  IF webrtc_deps_entry.revision # new_rev
    THEN <<ChangedDep(webrtc_deps_entry.path, webrtc_deps_entry.url,
                      webrtc_deps_entry.revision, new_rev)>>
    ELSE <<>>

\* The call ends with an exception (or sys.exit) raised while `path` is
\* visited: nothing is returned.
Raise(path, exception) ==
  /\ pc' = "raised"
  /\ error' = [exception |-> exception, path |-> path]
  /\ UNCHANGED <<webrtc_entries, new_cr_entries, todo, result, returned>>
  /\ UNCHANGED <<buildVars, messageVars, matchVars, mainVars>>

\* The loop goes on to the next path with `changes` appended to `result`.
Continue(path, changes) ==
  /\ todo' = todo \ {path}
  /\ result' = result \o changes
  /\ UNCHANGED <<webrtc_entries, new_cr_entries, pc, error, returned>>
  /\ UNCHANGED <<buildVars, messageVars, matchVars, mainVars>>

\* A path of the skip-list: `continue`.
SkipPath(path) ==
  /\ pc = "loop" /\ path \in todo
  /\ Skipped(path)
  /\ Continue(path, <<>>)
  /\ UNCHANGED commands

\* A shared path whose two entries are of different types: the assert fails.
SchemeMismatch(path) ==
  /\ pc = "loop" /\ path \in todo
  /\ ~Skipped(path) /\ Shared(path)
  /\ ~SameType(new_cr_entries[path], webrtc_entries[path])
  /\ Raise(path, "AssertionError")
  /\ UNCHANGED commands

\* A shared CIPD path: result.extend(_FindChangedCipdPackages(...)).
SharedCipd(path) ==
  /\ pc = "loop" /\ path \in todo
  /\ ~Skipped(path) /\ Shared(path)
  /\ SameType(new_cr_entries[path], webrtc_entries[path])
  /\ new_cr_entries[path].kind = "CipdDepsEntry"
  /\ LET found == _FindChangedCipdPackages(path, webrtc_entries[path].packages,
                                           new_cr_entries[path].packages)
     IN IF found.raised THEN Raise(path, "AssertionError")
                        ELSE Continue(path, found.yielded)
  /\ UNCHANGED commands

\* A shared git path: the url assert, then the roll to Chromium's revision.
SharedGit(path) ==
  /\ pc = "loop" /\ path \in todo
  /\ ~Skipped(path) /\ Shared(path)
  /\ SameType(new_cr_entries[path], webrtc_entries[path])
  /\ new_cr_entries[path].kind # "CipdDepsEntry"
  /\ IF SameUrl(webrtc_entries[path], new_cr_entries[path])
       THEN Continue(path,
              CheckUpdate(webrtc_entries[path],
                ChromiumRevision(webrtc_entries[path], new_cr_entries[path])))
       ELSE Raise(path, "AssertionError: different URL")
  /\ UNCHANGED commands

\* A path Chromium does not have, whose entry has no url attribute.
LocalCipd(path) ==
  /\ pc = "loop" /\ path \in todo
  /\ ~Skipped(path) /\ ~Shared(path)
  /\ webrtc_entries[path].kind = "CipdDepsEntry"
  /\ Raise(path, "AttributeError")
  /\ UNCHANGED commands

\* No command for a url that has been looked up before: a plausible slip.
LsRemoteOncePerUrl(log, path, url, outcome) ==
  IF \E i \in 1..Len(log) : log[i].url = url
    THEN log
    ELSE Append(log, [path |-> path, url |-> url, outcome |-> outcome])

\* `_RunCommand(['git', 'ls-remote', webrtc_deps_entry.url, 'HEAD'])`: the
\* commands run once this one has been.
LsRemote(log, path, url, outcome) ==
  Append(log, [path |-> path, url |-> url, outcome |-> outcome])

\* A path Chromium does not have: rolled to the HEAD of its repository.
LocalGit(path, outcome) ==
  /\ pc = "loop" /\ path \in todo
  /\ ~Skipped(path) /\ ~Shared(path)
  /\ webrtc_entries[path].kind = "DepsEntry"
  /\ commands' = LsRemote(commands, path, webrtc_entries[path].url, outcome)
  /\ IF CommandExits(outcome)
       THEN Raise(path, "SystemExit")
       ELSE Continue(path, CheckUpdate(webrtc_entries[path],
                                       HeadRevision(outcome.stdout)))

\* `return sorted(result)`
Return ==
  /\ pc = "loop" /\ todo = {}
  /\ pc' = "returned"
  /\ returned' = Sorted(result)
  /\ UNCHANGED <<webrtc_entries, new_cr_entries, todo, result, commands, error>>
  /\ UNCHANGED <<buildVars, messageVars, matchVars, mainVars>>

\* The state at the head of the loop: any two indexes of at most MaxEntries
\* entries together, or any index of at most MaxEntries entries and a copy of
\* it (Chromium's DEPS says what WebRTC's says).
Init ==
  /\ \E local \in SUBSET Paths, remote \in SUBSET Paths :
       /\ webrtc_entries \in IndexesOn(local)
       /\ \/ /\ Cardinality(local) + Cardinality(remote) <= MaxEntries
             /\ new_cr_entries \in IndexesOn(remote)
          \/ /\ Cardinality(local) <= MaxEntries
             /\ remote = local
             /\ new_cr_entries = webrtc_entries
  /\ todo = DOMAIN webrtc_entries
  /\ result = <<>>
  /\ commands = <<>>
  /\ pc = "loop"
  /\ error = [exception |-> "none", path |-> 0]
  /\ returned = <<>>
  /\ BuildIdle /\ MessageIdle /\ MatchIdle /\ MainIdle

Next ==
  \/ \E path \in Paths : SkipPath(path)
  \/ \E path \in Paths : SchemeMismatch(path)
  \/ \E path \in Paths : SharedCipd(path)
  \/ \E path \in Paths : SharedGit(path)
  \/ \E path \in Paths : LocalCipd(path)
  \/ \E path \in Paths, outcome \in LsRemoteOutcomes : LocalGit(path, outcome)
  \/ Return

Spec == Init /\ [][Next]_vars

-----------------------------------------------------------------------------
(* Properties of CalculateChangedDeps *)

\* The non-skipped paths of the local index.
Rolled == DOMAIN webrtc_entries \ DONT_AUTOROLL_THESE

\* The changes of the returned list that are about `path`, in its order.
ChangesAt(path) == SelectSeq(returned, LAMBDA c : c.path = path)

\* `path` is a git entry with one url in both indexes.
SharedGitPath(path) ==
  /\ path \in Rolled /\ path \in DOMAIN new_cr_entries
  /\ webrtc_entries[path].kind = "DepsEntry"
  /\ new_cr_entries[path].kind = "DepsEntry"
  /\ webrtc_entries[path].url = new_cr_entries[path].url

\* C1: when the call returns, a non-skipped path that is a git entry with
\* equal urls in both indexes has exactly one change in the list, (path,
\* local url, local revision, remote revision), if the two revisions differ,
\* and no change if they are equal.
C1_SharedGitRolledToRemote ==
  pc = "returned" =>
    \A path \in Paths :
      SharedGitPath(path) =>
        ChangesAt(path) =
          IF webrtc_entries[path].revision # new_cr_entries[path].revision
            THEN <<ChangedDep(path, webrtc_entries[path].url,
                              webrtc_entries[path].revision,
                              new_cr_entries[path].revision)>>
            ELSE <<>>

C1_Witness ==
  /\ pc = "returned"
  /\ \E path \in Paths :
       /\ SharedGitPath(path)
       /\ webrtc_entries[path].revision # new_cr_entries[path].revision
       /\ Len(ChangesAt(path)) = 1

\* `path` is a CIPD entry with one set of package names in both indexes.
SharedCipdPath(path) ==
  /\ path \in Rolled /\ path \in DOMAIN new_cr_entries
  /\ webrtc_entries[path].kind = "CipdDepsEntry"
  /\ new_cr_entries[path].kind = "CipdDepsEntry"
  /\ PackageSet(webrtc_entries[path].packages)
       = PackageSet(new_cr_entries[path].packages)

\* The version of package `name` in `pkgs`, without its 'version:' prefix.
VersionOf(pkgs, name) ==
  pkgs[CHOOSE i \in 1..Len(pkgs) : pkgs[i].package = name].version.value

\* The packages of a shared CIPD path whose versions differ.
MovedPackages(path) ==
  { name \in PackageSet(webrtc_entries[path].packages) :
      VersionOf(webrtc_entries[path].packages, name)
        # VersionOf(new_cr_entries[path].packages, name) }

\* C2: when the call returns, a non-skipped path that is a CIPD entry with
\* the same package names in both indexes has in the list exactly one change
\* (path, package, local version, remote version), versions without their
\* prefix, for each package whose version differs, and no other change.
C2_SharedCipdPackagesRolled ==
  pc = "returned" =>
    \A path \in Paths :
      SharedCipdPath(path) =>
        /\ { ChangesAt(path)[i] : i \in 1..Len(ChangesAt(path)) } =
             { ChangedCipdPackage(path, name,
                 VersionOf(webrtc_entries[path].packages, name),
                 VersionOf(new_cr_entries[path].packages, name)) :
               name \in MovedPackages(path) }
        /\ Len(ChangesAt(path)) = Cardinality(MovedPackages(path))

C2_Witness ==
  /\ pc = "returned"
  /\ \E path \in Paths :
       /\ SharedCipdPath(path)
       /\ Len(webrtc_entries[path].packages) = 2
       /\ Cardinality(MovedPackages(path)) = 1
       /\ Len(ChangesAt(path)) = 1

\* `path` is a CIPD entry in both indexes, with different package names.
PackageSetMismatch(path) ==
  /\ path \in Rolled /\ path \in DOMAIN new_cr_entries
  /\ webrtc_entries[path].kind = "CipdDepsEntry"
  /\ new_cr_entries[path].kind = "CipdDepsEntry"
  /\ PackageSet(webrtc_entries[path].packages)
       # PackageSet(new_cr_entries[path].packages)

\* C3: with a non-skipped CIPD path whose package names differ between the
\* two indexes, the call never returns a list: the loop does not get past
\* that path, and an exception raised for it is the failed assert.
C3_PackageSetMismatchFails ==
  \A path \in Paths :
    PackageSetMismatch(path) =>
      /\ pc # "returned"
      /\ path \in todo
      /\ (pc = "raised" /\ error.path = path)
           => error.exception = "AssertionError"

C3_Witness ==
  /\ pc = "raised"
  /\ \E path \in Paths :
       /\ PackageSetMismatch(path)
       /\ error.path = path
       /\ PackageSet(webrtc_entries[path].packages)
            \cap PackageSet(new_cr_entries[path].packages) # {}

\* The two entries of a shared path are of different kinds.
KindMismatch(path) ==
  /\ path \in Rolled /\ path \in DOMAIN new_cr_entries
  /\ webrtc_entries[path].kind # new_cr_entries[path].kind

\* `path` is a git entry in both indexes, with different urls.
UrlMismatch(path) ==
  /\ path \in Rolled /\ path \in DOMAIN new_cr_entries
  /\ webrtc_entries[path].kind = "DepsEntry"
  /\ new_cr_entries[path].kind = "DepsEntry"
  /\ webrtc_entries[path].url # new_cr_entries[path].url

\* `git ls-remote` was run for `path` and failed.
HeadFailed(path) ==
  \E i \in 1..Len(commands) :
    commands[i].path = path /\ commands[i].outcome.returncode # 0

\* C4: once a non-skipped path has met a fatal condition (entries of
\* different kinds, different urls, different package names, or a failed
\* HEAD lookup), the call has not returned and returns no list, whatever
\* changes it has collected for other paths.
C4_FatalMeansNoList ==
  (\E path \in Rolled :
     \/ KindMismatch(path) \/ UrlMismatch(path)
     \/ PackageSetMismatch(path) \/ HeadFailed(path))
    => (pc # "returned" /\ returned = <<>>)

C4_Witness ==
  /\ pc = "raised"
  /\ result # <<>>
  /\ error.exception = "SystemExit"
  /\ HeadFailed(error.path)

\* C5: with a non-skipped git path whose url differs between the two
\* indexes, equal revisions or not, the call never returns a list: the loop
\* does not get past that path, and an exception raised for it is the url
\* assert.
C5_UrlMismatchFails ==
  \A path \in Paths :
    UrlMismatch(path) =>
      /\ pc # "returned"
      /\ path \in todo
      /\ (pc = "raised" /\ error.path = path)
           => error.exception = "AssertionError: different URL"

C5_Witness ==
  /\ pc = "raised"
  /\ \E path \in Paths :
       /\ UrlMismatch(path)
       /\ error.path = path
       /\ webrtc_entries[path].revision = new_cr_entries[path].revision

\* `path` is a non-skipped git entry the remote index does not have.
LocalGitPath(path) ==
  /\ path \in Rolled /\ path \notin DOMAIN new_cr_entries
  /\ webrtc_entries[path].kind = "DepsEntry"

\* The positions in `commands` of the lookups made for `path`.
LookupsFor(path) == { i \in 1..Len(commands) : commands[i].path = path }

\* C6: when the call returns, a non-skipped git path absent from the remote
\* index has had HEAD of its url resolved, once, and has exactly one change
\* in the list, (path, url, pinned revision, HEAD revision), if and only if
\* the HEAD revision differs from the pinned one.
C6_LocalGitRolledToHead ==
  pc = "returned" =>
    \A path \in Paths :
      LocalGitPath(path) =>
        /\ Cardinality(LookupsFor(path)) = 1
        /\ \A i \in LookupsFor(path) :
             /\ commands[i].url = webrtc_entries[path].url
             /\ ChangesAt(path) =
                  IF commands[i].outcome.stdout[1] # webrtc_entries[path].revision
                    THEN <<ChangedDep(path, webrtc_entries[path].url,
                                      webrtc_entries[path].revision,
                                      commands[i].outcome.stdout[1])>>
                    ELSE <<>>

C6_Witness ==
  /\ pc = "returned"
  /\ \E path \in Paths :
       /\ LocalGitPath(path)
       /\ \E i \in LookupsFor(path) :
            commands[i].outcome.stdout[1] = webrtc_entries[path].revision
       /\ ChangesAt(path) = <<>>

\* C7: a path of the skip-list has no change in the list being built or
\* returned, no exception is raised for it, and no HEAD lookup is made for
\* it; every lookup is made for a non-skipped local path absent from the
\* remote index.
C7_SkipListUntouched ==
  /\ \A path \in DONT_AUTOROLL_THESE :
       /\ \A i \in 1..Len(result) : result[i].path # path
       /\ \A i \in 1..Len(returned) : returned[i].path # path
       /\ error.path # path
       /\ LookupsFor(path) = {}
  /\ \A i \in 1..Len(commands) :
       /\ commands[i].path \in Rolled
       /\ commands[i].path \notin DOMAIN new_cr_entries

C7_Witness ==
  /\ pc = "returned"
  /\ \E path \in DONT_AUTOROLL_THESE :
       /\ path \in DOMAIN webrtc_entries
       /\ path \in DOMAIN new_cr_entries
       /\ webrtc_entries[path].kind # new_cr_entries[path].kind
  /\ commands # <<>>

\* The changes the inputs and the answers of the resolver call for.
ExpectedChanges ==
  UNION {
    IF SharedGitPath(path)
      THEN IF webrtc_entries[path].revision # new_cr_entries[path].revision
             THEN { ChangedDep(path, webrtc_entries[path].url,
                               webrtc_entries[path].revision,
                               new_cr_entries[path].revision) }
             ELSE {}
    ELSE IF SharedCipdPath(path)
      THEN { ChangedCipdPackage(path, name,
               VersionOf(webrtc_entries[path].packages, name),
               VersionOf(new_cr_entries[path].packages, name)) :
             name \in MovedPackages(path) }
    ELSE IF LocalGitPath(path)
      THEN { ChangedDep(path, webrtc_entries[path].url,
                        webrtc_entries[path].revision,
                        commands[i].outcome.stdout[1]) :
             i \in { j \in LookupsFor(path) :
                       commands[j].outcome.stdout[1]
                         # webrtc_entries[path].revision } }
    ELSE {} : path \in Paths }

\* `c` comes before `d`: by path, and by package name on one path.
Before(c, d) ==
  \/ c.path < d.path
  \/ /\ c.path = d.path
     /\ c.kind = "ChangedCipdPackage" /\ d.kind = "ChangedCipdPackage"
     /\ c.package < d.package

\* C8: the returned list is strictly ascending by path, and by package name
\* among the CIPD changes of one path, and holds exactly the changes the two
\* indexes and the resolver's answers call for: one list, whatever the order
\* the loop visited the paths in and the lookups were answered in.
C8_ReturnedSortedAndDetermined ==
  pc = "returned" =>
    /\ \A i, j \in 1..Len(returned) : i < j => Before(returned[i], returned[j])
    /\ { returned[i] : i \in 1..Len(returned) } = ExpectedChanges

C8_Witness ==
  /\ pc = "returned"
  /\ Len(returned) >= 2
  /\ returned # result
  /\ \E i \in 1..Len(returned) : returned[i].kind = "ChangedCipdPackage"

\* C9: the diff of an index against itself raises nothing, collects and
\* returns no change, and makes no HEAD lookup.
C9_SelfDiffEmpty ==
  new_cr_entries = webrtc_entries =>
    /\ pc # "raised"
    /\ result = <<>>
    /\ returned = <<>>
    /\ commands = <<>>

C9_Witness ==
  /\ pc = "returned"
  /\ new_cr_entries = webrtc_entries
  /\ DOMAIN webrtc_entries \cap DONT_AUTOROLL_THESE = {}
  /\ \E p, q \in DOMAIN webrtc_entries :
       /\ webrtc_entries[p].kind = "DepsEntry"
       /\ webrtc_entries[q].kind = "CipdDepsEntry"
       /\ Len(webrtc_entries[q].packages) = 2

\* The positions in `commands` of the lookups made for `url`.
LookupsOf(url) == { i \in 1..Len(commands) : commands[i].url = url }

\* The non-skipped git paths absent from the remote index that have `url`.
LocalGitPathsWith(url) ==
  { path \in Paths : LocalGitPath(path) /\ webrtc_entries[path].url = url }

\* C16 as stated: no url is looked up twice in one call.
C16_NoUrlLookedUpTwice ==
  \A url \in Urls : Cardinality(LookupsOf(url)) <= 1

\* C16: the HEAD of a url is looked up once for each non-skipped git path
\* absent from the remote index that has this url, and for nothing else: no
\* path is looked up twice, every lookup is for such a path and its url, and
\* when the call returns a url has as many lookups as it has such paths.
C16_OneLookupPerLocalGitPath ==
  /\ \A i, j \in 1..Len(commands) :
       commands[i].path = commands[j].path => i = j
  /\ \A i \in 1..Len(commands) :
       /\ LocalGitPath(commands[i].path)
       /\ commands[i].url = webrtc_entries[commands[i].path].url
  /\ pc = "returned" =>
       \A url \in Urls :
         Cardinality(LookupsOf(url)) = Cardinality(LocalGitPathsWith(url))

C16_Witness ==
  /\ pc = "returned"
  /\ \E url \in Urls :
       /\ Cardinality(LocalGitPathsWith(url)) = 2
       /\ \E i, j \in LookupsOf(url) :
            commands[i].outcome.stdout # commands[j].outcome.stdout

\* The value a change moves its path (or package) from, and the value it
\* moves it to.
CurrentOf(c) ==
  IF c.kind = "ChangedDep" THEN c.current_rev ELSE c.current_version

NewOf(c) == IF c.kind = "ChangedDep" THEN c.new_rev ELSE c.new_version

\* C18: every element of a returned list has a path that is a key of the
\* local index and not in the skip-list, and a current value different from
\* its new value; and no two ChangedDep elements have one path.
C18_OnlyRealChanges ==
  \A i \in 1..Len(returned) :
    /\ returned[i].path \in DOMAIN webrtc_entries
    /\ returned[i].path \notin DONT_AUTOROLL_THESE
    /\ CurrentOf(returned[i]) # NewOf(returned[i])
    /\ \A j \in 1..Len(returned) :
         /\ returned[i].kind = "ChangedDep"
         /\ returned[j].kind = "ChangedDep"
         /\ returned[i].path = returned[j].path
         => i = j

C18_Witness ==
  /\ pc = "returned"
  /\ \E i \in 1..Len(returned) : returned[i].kind = "ChangedCipdPackage"
  /\ DOMAIN webrtc_entries \cap DONT_AUTOROLL_THESE # {}
  /\ \E path \in Rolled :
       /\ SharedCipdPath(path)
       /\ \E i, j \in 1..Len(webrtc_entries[path].packages) :
            /\ webrtc_entries[path].packages[i].package
                 = new_cr_entries[path].packages[j].package
            /\ webrtc_entries[path].packages[i].version
                 = new_cr_entries[path].packages[j].version

-----------------------------------------------------------------------------
(* BuildDepsentryDict *)

\* The raw DEPS dict holds at most this many dependencies, over all sections.
MaxDeps == 3

\* The paths and the deps_os keys of the raw DEPS dicts.
DepsPaths == {1, 2}
DepsOsKeys == {"win", "unix", "fuchsia"}

\* A string is the sequence of its characters; the character '@' is 0.
AT == 0

\* The values a DEPS file gives a path: a string (with one '@', with none,
\* with two), or a dict (with a url, of type cipd with or without packages,
\* or with none of these keys).
RawValues ==
  { [isdict |-> FALSE, str |-> chars] :
      chars \in { <<1, AT, 1>>, <<1, AT, 2>>, <<1>>, <<1, AT, 1, AT, 2>> } }
    \cup
  { [isdict |-> TRUE, dict |-> d] :
      d \in { [url |-> <<2, AT, 1>>],
              [dep_type |-> "cipd", packages |-> <<Package(1, 1)>>],
              [dep_type |-> "cipd"],
              [condition |-> "checkout_android"] } }

\* dict.get(key, default)
Get(dict, key, default) == IF key \in DOMAIN dict THEN dict[key] ELSE default

\* string.split(sep, 1), which splits at the first `sep` only: a plausible
\* slip.
SplitOnce(string, sep) ==
  IF \A i \in 1..Len(string) : string[i] # sep
    THEN <<string>>
    ELSE LET first == CHOOSE i \in 1..Len(string) :
                        /\ string[i] = sep
                        /\ \A j \in 1..(i - 1) : string[j] # sep
         IN <<SubSeq(string, 1, first - 1),
              SubSeq(string, first + 1, Len(string))>>

\* string.split(sep): the pieces between the occurrences of `sep`.
RECURSIVE Split(_, _)
Split(string, sep) ==
  IF \A i \in 1..Len(string) : string[i] # sep
    THEN <<string>>
    ELSE LET first == CHOOSE i \in 1..Len(string) :
                        /\ string[i] = sep
                        /\ \A j \in 1..(i - 1) : string[j] # sep
         IN <<SubSeq(string, 1, first - 1)>>
              \o Split(SubSeq(string, first + 1, Len(string)), sep)

\* The body of the loop of AddDepsEntries for a path not yet in the dict:
\* the entry stored, or the exception raised.
ParseDep(path, raw) ==
  LET dep == IF raw.isdict THEN raw.dict ELSE [url |-> raw.str]
  IN IF Get(dep, "dep_type", "None") = "cipd"
       THEN IF "packages" \in DOMAIN dep
              THEN [exception |-> "none",
                    entry |-> CipdDepsEntry(path, dep.packages)]
              ELSE [exception |-> "KeyError", entry |-> <<>>]
       ELSE IF "url" \notin DOMAIN dep
              THEN [exception |-> "KeyError", entry |-> <<>>]
              ELSE LET parts == Split(dep.url, AT)
                   IN IF Len(parts) = 2
                        THEN [exception |-> "none",
                              entry |-> DepsEntry(path, parts[1], parts[2])]
                        ELSE [exception |-> "ValueError", entry |-> <<>>]

\* AddDepsEntries without `if path in result: continue`, so that a later
\* section overrides an earlier one: a plausible slip.
AddDepsEntriesOverriding(entries, deps_subdict) ==
  LET parsed == [path \in DOMAIN deps_subdict |->
                   ParseDep(path, deps_subdict[path])]
  IN [exceptions |->
        { parsed[path].exception : path \in DOMAIN deps_subdict } \ {"none"},
      dict |-> [path \in DOMAIN entries \cup DOMAIN deps_subdict |->
                  IF path \in DOMAIN deps_subdict THEN parsed[path].entry
                                                  ELSE entries[path]]]

\* AddDepsEntries: `entries` with the entries of the paths of `deps_subdict` it
\* did not have, and the exceptions the call can end with (which one depends
\* on the order the dict is iterated in).
AddDepsEntries(entries, deps_subdict) ==
  LET fresh == DOMAIN deps_subdict \ DOMAIN entries
      parsed == [path \in fresh |-> ParseDep(path, deps_subdict[path])]
  IN [exceptions |-> { parsed[path].exception : path \in fresh } \ {"none"},
      dict |-> [path \in DOMAIN entries \cup fresh |->
                  IF path \in DOMAIN entries THEN entries[path]
                                            ELSE parsed[path].entry]]

\* No deps_os section is read: a plausible slip.
NoPlatforms == <<>>

\* The deps_os sections BuildDepsentryDict reads, in order.
DepsOsPlatforms == <<"win", "mac", "unix", "android", "ios", "unix">>

\* BuildDepsentryDict after 'deps' and the first n deps_os sections.
RECURSIVE BuildUpTo(_, _)
BuildUpTo(raw_deps, n) ==
  IF n = 0
    THEN AddDepsEntries(<<>>, raw_deps["deps"])
    ELSE LET before == BuildUpTo(raw_deps, n - 1)
         IN IF before.exceptions # {}
              THEN before
              ELSE AddDepsEntries(before.dict,
                     Get(Get(raw_deps, "deps_os", <<>>),
                         DepsOsPlatforms[n], <<>>))

BuildDepsentryDict(raw_deps) == BuildUpTo(raw_deps, Len(DepsOsPlatforms))

\* The places a raw DEPS dict can give a value: a section and a path.
DepsSlots == ({"deps"} \cup DepsOsKeys) \X DepsPaths

\* The raw DEPS dict that gives the slots of `filled` their values.
RawDepsDict(filled) ==
  LET section(key) ==
        [path \in { q \in DepsPaths : <<key, q>> \in DOMAIN filled } |->
           filled[<<key, path>>]]
      os_keys == { key \in DepsOsKeys :
                     \E q \in DepsPaths : <<key, q>> \in DOMAIN filled }
  IN IF os_keys = {}
       THEN [deps |-> section("deps")]
       ELSE [deps |-> section("deps"),
             deps_os |-> [key \in os_keys |-> section(key)]]

\* BuildDepsentryDict returns its dict.
BuildReturns ==
  /\ pc = "build"
  /\ BuildDepsentryDict(deps_dict).exceptions = {}
  /\ depsentry_dict' = BuildDepsentryDict(deps_dict).dict
  /\ pc' = "returned"
  /\ UNCHANGED <<diffVars, error, deps_dict>>
  /\ UNCHANGED <<messageVars, matchVars, mainVars>>

\* BuildDepsentryDict ends with an exception.
BuildRaises(exception) ==
  /\ pc = "build"
  /\ exception \in BuildDepsentryDict(deps_dict).exceptions
  /\ pc' = "raised"
  /\ error' = [exception |-> exception, path |-> 0]
  /\ UNCHANGED <<diffVars, deps_dict, depsentry_dict>>
  /\ UNCHANGED <<messageVars, matchVars, mainVars>>

\* The state at the call of BuildDepsentryDict, for any raw DEPS dict of at
\* most MaxDeps dependencies.
InitBuild ==
  /\ \E slots \in SUBSET DepsSlots :
       /\ Cardinality(slots) <= MaxDeps
       /\ \E filled \in [slots -> RawValues] : deps_dict = RawDepsDict(filled)
  /\ depsentry_dict = <<>>
  /\ pc = "build"
  /\ error = [exception |-> "none", path |-> 0]
  /\ DiffIdle /\ MessageIdle /\ MatchIdle /\ MainIdle

NextBuild ==
  \/ BuildReturns
  \/ \E exception \in {"KeyError", "ValueError"} : BuildRaises(exception)

SpecBuild == InitBuild /\ [][NextBuild]_vars

-----------------------------------------------------------------------------
(* Properties of BuildDepsentryDict *)

\* The paths of the deps_os section `key`.
OsPaths(key) == DOMAIN Get(Get(deps_dict, "deps_os", <<>>), key, <<>>)

\* C10 as stated, for the one platform list the code has: the paths of the
\* returned index are exactly the keys of 'deps', whatever deps_os holds.
C10_OnlyBasePaths ==
  pc = "returned" => DOMAIN depsentry_dict = DOMAIN deps_dict["deps"]

\* C10, amended: the paths of the returned index are exactly the keys of
\* 'deps' and of the deps_os sections win, mac, unix, android and ios; the
\* sections of other platforms add nothing.
C10_BaseAndListedPlatformPaths ==
  pc = "returned" =>
    DOMAIN depsentry_dict =
      DOMAIN deps_dict["deps"]
        \cup UNION { OsPaths(key) : key \in {"win", "mac", "unix", "android", "ios"} }

C10_Witness ==
  /\ pc = "returned"
  /\ \E path \in OsPaths("unix") :
       path \notin DOMAIN deps_dict["deps"] /\ path \in DOMAIN depsentry_dict
  /\ \E path \in OsPaths("fuchsia") : path \notin DOMAIN depsentry_dict

\* The sections of the raw DEPS dict in the order they are read.
SectionsInOrder ==
  <<deps_dict["deps"]>>
    \o [i \in 1..5 |->
          Get(Get(deps_dict, "deps_os", <<>>),
              <<"win", "mac", "unix", "android", "ios">>[i], <<>>)]

\* The value of `path` in the first section that has it.
FirstValue(path) ==
  LET first == CHOOSE i \in 1..Len(SectionsInOrder) :
                 /\ path \in DOMAIN SectionsInOrder[i]
                 /\ \A j \in 1..(i - 1) : path \notin DOMAIN SectionsInOrder[j]
  IN SectionsInOrder[first][path]

\* C11: first occurrence wins. Every path of the returned index carries the
\* entry built from its value in the first section that has it: the base
\* 'deps' if it is there, whatever deps_os sections define the path too, and
\* otherwise the earliest of win, mac, unix, android, ios.
C11_FirstOccurrenceWins ==
  pc = "returned" =>
    \A path \in DOMAIN depsentry_dict :
      depsentry_dict[path] = ParseDep(path, FirstValue(path)).entry

C11_Witness ==
  /\ pc = "returned"
  /\ \E path \in DOMAIN deps_dict["deps"] :
       /\ path \in OsPaths("win") /\ path \in OsPaths("unix")
       /\ deps_dict["deps_os"]["win"][path] # deps_dict["deps"][path]
       /\ deps_dict["deps_os"]["unix"][path] # deps_dict["deps"][path]
       /\ depsentry_dict[path]
            # ParseDep(path, deps_dict["deps_os"]["unix"][path]).entry

\* The paths of the sections BuildDepsentryDict reads.
PathsRead == UNION { DOMAIN SectionsInOrder[i] : i \in 1..Len(SectionsInOrder) }

\* The paths whose value, where the path occurs first, is a plain string.
StringPaths == { path \in PathsRead : ~FirstValue(path).isdict }

\* The number of '@' in `string`.
AtCount(string) == Cardinality({ i \in 1..Len(string) : string[i] = AT })

\* The position of the first '@' of a string that has one.
FirstAt(string) ==
  CHOOSE i \in 1..Len(string) :
    string[i] = AT /\ \A j \in 1..(i - 1) : string[j] # AT

\* The entry with the url before the first '@' of `string` and the revision
\* after it.
CutAtFirstAt(path, string) ==
  DepsEntry(path, SubSeq(string, 1, FirstAt(string) - 1),
            SubSeq(string, FirstAt(string) + 1, Len(string)))

\* C17 as stated: a build that returns has made of every plain string an
\* entry cut at the string's first '@', and a build that fails over a split
\* has met a plain string with no '@'.
C17_SplitAtFirstAtOnly ==
  /\ pc = "returned" =>
       \A path \in StringPaths :
         /\ AtCount(FirstValue(path).str) >= 1
         /\ depsentry_dict[path] = CutAtFirstAt(path, FirstValue(path).str)
  /\ pc = "raised" /\ error.exception = "ValueError" =>
       \E path \in StringPaths : AtCount(FirstValue(path).str) = 0

\* C17: a plain string makes an entry only if it has exactly one '@', the url
\* being what is before it and the revision what is after it: a build that
\* returns has met no plain string with no '@' or with more than one, and a
\* build that fails over a split has met one.
C17_ExactlyOneAt ==
  /\ pc = "returned" =>
       \A path \in StringPaths :
         /\ AtCount(FirstValue(path).str) = 1
         /\ depsentry_dict[path] = CutAtFirstAt(path, FirstValue(path).str)
  /\ pc = "raised" /\ error.exception = "ValueError" =>
       \E path \in StringPaths : AtCount(FirstValue(path).str) # 1

C17_Witness ==
  /\ pc = "raised" /\ error.exception = "ValueError"
  /\ StringPaths # {}
  /\ \A path \in StringPaths : AtCount(FirstValue(path).str) >= 1
  /\ \E path \in StringPaths : AtCount(FirstValue(path).str) = 2

-----------------------------------------------------------------------------
(* GenerateCommitMessage *)

\* The list of changes passed to GenerateCommitMessage has at most this many
\* elements.
MaxChanges == 2

\* In a path the character 9 stands for the substring 'libvpx'.
LIBVPX == 9

\* Revisions: two of twelve characters that agree on their first ten, and a
\* short one.
MessageRevisions ==
  { <<1, 1, 1, 1, 1, 1, 1, 1, 1, 1, 1, 1>>,
    <<1, 1, 1, 1, 1, 1, 1, 1, 1, 1, 2, 2>>,
    <<2>> }

MessagePaths == { <<1>>, <<1, LIBVPX>> }
MessageVersions == { <<1>>, <<2>> }

\* The changes a list can hold.
MessageChanges ==
  { ChangedDep(path, <<1>>, current_rev, new_rev) :
      path \in MessagePaths,
      current_rev \in MessageRevisions, new_rev \in MessageRevisions }
    \cup
  { ChangedCipdPackage(path, <<1>>, current_version, new_version) :
      path \in MessagePaths,
      current_version \in MessageVersions, new_version \in MessageVersions }

ChromiumRevisionUpdate(current_chromium_rev, new_chromium_rev, current_third_party_rev, new_third_party_rev) ==
  [current_chromium_rev |-> current_chromium_rev,
   new_chromium_rev |-> new_chromium_rev,
   current_third_party_rev |-> current_third_party_rev,
   new_third_party_rev |-> new_third_party_rev]

\* The outcomes of `git config user.email`: exit code 0 and the address on
\* the first line of stdout, or a failure.
GitConfigOutcomes ==
  { [returncode |-> 0, stdout |-> << <<7>> >>],
    [returncode |-> 1, stdout |-> << <<>> >>] }

\* string[0:n]
Prefix(string, n) ==
  SubSeq(string, 1, IF Len(string) < n THEN Len(string) ELSE n)

\* The whole revision printed: a plausible slip.
FullRevision(revision) == revision

\* revision[0:10]
ShortRevision(revision) == Prefix(revision, 10)

\* `substring in string`, for a substring of one character.
Contains(string, char) == \E i \in 1..Len(string) : string[i] = char

\* An element of the list commit_msg: a format with its values filled in,
\* which ends with '\n' or not.
Element(format, values, newline) ==
  [format |-> format, values |-> values, newline |-> newline]

\* A line of the message.
Line(format, values) == [format |-> format, values |-> values]

\* '\n'.join(commit_msg), as lines: an element that ends with '\n' is
\* followed by an empty line.
RECURSIVE Join(_)
Join(elements) ==
  IF elements = <<>> THEN <<>>
  ELSE LET head == elements[1]
       IN <<Line(head.format, head.values)>>
            \o (IF head.newline THEN <<Line("", <<>>)>> ELSE <<>>)
            \o Join(Tail(elements))

\* The 'Changed dependencies:' block appended for an empty list too: a
\* plausible slip.
AlwaysChanged(changed_deps_list) == TRUE

\* `if changed_deps_list:`
HasChanges(changed_deps_list) == changed_deps_list # <<>>

\* The element appended for one change of the list.
ChangeElement(c) ==
  IF c.kind = "ChangedCipdPackage"
    THEN Element("* %s: %s..%s",
                 <<c.path, c.current_version, c.new_version>>, FALSE)
    ELSE Element("* %s: %s/+log/%s..%s",
                 <<c.path, c.url, ShortRevision(c.current_rev),
                   ShortRevision(c.new_rev)>>, FALSE)

\* tbr_authors after the loop: 'marpan@webrtc.org, ' once per change whose
\* path contains 'libvpx'.
TbrAuthors(changed_deps_list) ==
  LET hits == SelectSeq(changed_deps_list,
                        LAMBDA c : Contains(c.path, LIBVPX))
  IN [i \in 1..Len(hits) |-> "marpan@webrtc.org, "]

\* The list commit_msg at the return of GenerateCommitMessage.
CommitMsgElements(rev_update, current_commit_pos, new_commit_pos, changed_deps_list, clang_change, git_author) ==
  LET current_cr_rev == ShortRevision(rev_update.current_chromium_rev)
      new_cr_rev == ShortRevision(rev_update.new_chromium_rev)
      current_3p_rev == ShortRevision(rev_update.current_third_party_rev)
      new_3p_rev == ShortRevision(rev_update.new_third_party_rev)
      chromium == "https://chromium.googlesource.com/chromium/src"
  IN << Element("Roll chromium_revision %s..%s (%s:%s)",
                <<current_cr_rev, new_cr_rev,
                  <<current_commit_pos>>, <<new_commit_pos>> >>, TRUE),
        Element("Change log: https://chromium.googlesource.com/chromium/src/+log/%s..%s",
                <<current_cr_rev, new_cr_rev>>, FALSE),
        Element("Full diff: https://chromium.googlesource.com/chromium/src/+/%s..%s",
                <<current_cr_rev, new_cr_rev>>, TRUE),
        Element("Roll chromium third_party %s..%s",
                <<current_3p_rev, new_3p_rev>>, FALSE),
        Element("Change log: https://chromium.googlesource.com/chromium/src/third_party/+log/%s..%s",
                <<current_3p_rev, new_3p_rev>>, TRUE) >>
     \o (IF HasChanges(changed_deps_list)
           THEN << Element("Changed dependencies:", <<>>, FALSE) >>
                  \o [i \in 1..Len(changed_deps_list) |->
                        ChangeElement(changed_deps_list[i])]
                  \o << Element("DEPS diff: https://chromium.googlesource.com/chromium/src/+/%s..%s/DEPS",
                                <<current_cr_rev, new_cr_rev>>, TRUE) >>
           ELSE << Element("No dependencies changed.", <<>>, FALSE) >>)
     \o (IF clang_change.current_rev # clang_change.new_rev
           THEN << Element("Clang version changed %s:%s",
                           <<clang_change.current_rev,
                             clang_change.new_rev>>, FALSE),
                   Element("Details: https://chromium.googlesource.com/chromium/src/+/%s..%s/tools/clang/scripts/update.py",
                           <<current_cr_rev, new_cr_rev>>, TRUE) >>
           ELSE << Element("No update to Clang.", <<>>, TRUE) >>)
     \o << Element("TBR=%s,%s",
                   <<git_author, TbrAuthors(changed_deps_list)>>, FALSE),
           Element("BUG=None", <<>>, FALSE),
           Element("CQ_INCLUDE_TRYBOTS=master.internal.tryserver.corp.webrtc:linux_internal",
                   <<>>, FALSE) >>

\* GenerateCommitMessage returns the message.
GenerateReturns(outcome) ==
  /\ pc = "generate"
  /\ ~CommandExits(outcome)
  /\ commit_msg' =
       Join(CommitMsgElements(message_args.rev_update,
                              message_args.current_commit_pos,
                              message_args.new_commit_pos,
                              message_args.changed_deps_list,
                              message_args.clang_change,
                              outcome.stdout[1]))
  /\ pc' = "returned"
  /\ UNCHANGED <<diffVars, buildVars, matchVars, mainVars, error,
                 message_args>>

\* `git config user.email` fails: _RunCommand ends the process.
GenerateExits(outcome) ==
  /\ pc = "generate"
  /\ CommandExits(outcome)
  /\ pc' = "raised"
  /\ error' = [exception |-> "SystemExit", path |-> 0]
  /\ UNCHANGED <<diffVars, buildVars, matchVars, mainVars, messageVars>>

\* The lists of at most n changes.
ChangeLists(n) == UNION { [1..k -> MessageChanges] : k \in 0..n }

\* The state at the call of GenerateCommitMessage.
InitMessage ==
  /\ \E new_chromium_rev \in MessageRevisions,
        changed_deps_list \in ChangeLists(MaxChanges),
        clang_current \in MessageVersions, clang_new \in MessageVersions :
       message_args =
         [rev_update |->
            ChromiumRevisionUpdate(<<1, 1, 1, 1, 1, 1, 1, 1, 1, 1, 1, 1>>,
                                   new_chromium_rev, <<2>>, <<1>>),
          current_commit_pos |-> 1,
          new_commit_pos |-> 2,
          changed_deps_list |-> changed_deps_list,
          clang_change |-> ChangedDep(<<3>>, <<>>, clang_current, clang_new)]
  /\ commit_msg = <<>>
  /\ pc = "generate"
  /\ error = [exception |-> "none", path |-> 0]
  /\ DiffIdle /\ BuildIdle /\ MatchIdle /\ MainIdle

NextMessage ==
  \/ \E outcome \in GitConfigOutcomes : GenerateReturns(outcome)
  \/ \E outcome \in GitConfigOutcomes : GenerateExits(outcome)

SpecMessage == InitMessage /\ [][NextMessage]_vars

-----------------------------------------------------------------------------
(* Properties of GenerateCommitMessage *)

\* The positions of the lines of the message that are the literal `text`.
LinesSaying(text) ==
  { i \in 1..Len(commit_msg) :
      commit_msg[i].format = text /\ commit_msg[i].values = <<>> }

\* The positions of the 'DEPS diff: ...' lines.
DepsDiffLines ==
  { i \in 1..Len(commit_msg) :
      commit_msg[i].format
        = "DEPS diff: https://chromium.googlesource.com/chromium/src/+/%s..%s/DEPS" }

\* C12: the message for an empty list of changes has the line 'No
\* dependencies changed.' once, and neither the line 'Changed dependencies:'
\* nor a 'DEPS diff:' line; the message for a non-empty list has the line
\* 'Changed dependencies:' and not the line 'No dependencies changed.'.
C12_NoChangeLineIffEmpty ==
  pc = "returned" =>
    IF message_args.changed_deps_list = <<>>
      THEN /\ Cardinality(LinesSaying("No dependencies changed.")) = 1
           /\ LinesSaying("Changed dependencies:") = {}
           /\ DepsDiffLines = {}
      ELSE /\ LinesSaying("Changed dependencies:") # {}
           /\ LinesSaying("No dependencies changed.") = {}

C12_Witness ==
  /\ pc = "returned"
  /\ message_args.changed_deps_list = <<>>
  /\ Cardinality(LinesSaying("No dependencies changed.")) = 1

\* The lines between 'Changed dependencies:' and the 'DEPS diff:' line.
ChangedBlock ==
  LET header == CHOOSE i \in LinesSaying("Changed dependencies:") : TRUE
      footer == CHOOSE i \in DepsDiffLines : TRUE
  IN SubSeq(commit_msg, header + 1, footer - 1)

\* C13 as stated: the block has one line per change, in the order of the
\* list: '* path: current..new' for a git change, with its two revisions,
\* and '* path: currentVersion..newVersion' for a CIPD change.
C13_LinePerChangeAsStated ==
  (pc = "returned" /\ message_args.changed_deps_list # <<>>) =>
    LET changes == message_args.changed_deps_list
    IN /\ Len(ChangedBlock) = Len(changes)
       /\ \A i \in 1..Len(changes) :
            /\ ChangedBlock[i].format = "* %s: %s..%s"
            /\ ChangedBlock[i].values =
                 IF changes[i].kind = "ChangedCipdPackage"
                   THEN <<changes[i].path, changes[i].current_version,
                          changes[i].new_version>>
                   ELSE <<changes[i].path, changes[i].current_rev,
                          changes[i].new_rev>>

\* C13, amended: the block has one line per change, in the order of the
\* list: '* path: url/+log/current..new' for a git change, with the first
\* ten characters of each revision, and '* path: currentVersion..newVersion'
\* for a CIPD change.
C13_LinePerChange ==
  (pc = "returned" /\ message_args.changed_deps_list # <<>>) =>
    LET changes == message_args.changed_deps_list
    IN /\ Cardinality(LinesSaying("Changed dependencies:")) = 1
       /\ Cardinality(DepsDiffLines) = 1
       /\ Len(ChangedBlock) = Len(changes)
       /\ \A i \in 1..Len(changes) :
            IF changes[i].kind = "ChangedCipdPackage"
              THEN /\ ChangedBlock[i].format = "* %s: %s..%s"
                   /\ ChangedBlock[i].values =
                        <<changes[i].path, changes[i].current_version,
                          changes[i].new_version>>
              ELSE /\ ChangedBlock[i].format = "* %s: %s/+log/%s..%s"
                   /\ ChangedBlock[i].values =
                        <<changes[i].path, changes[i].url,
                          Prefix(changes[i].current_rev, 10),
                          Prefix(changes[i].new_rev, 10)>>

C13_Witness ==
  /\ pc = "returned"
  /\ Len(message_args.changed_deps_list) = 2
  /\ message_args.changed_deps_list[1].kind = "ChangedCipdPackage"
  /\ message_args.changed_deps_list[2].kind = "ChangedDep"
  /\ Len(message_args.changed_deps_list[2].new_rev) > 10
  /\ Len(ChangedBlock) = 2
  /\ ChangedBlock[2].format = "* %s: %s/+log/%s..%s"

-----------------------------------------------------------------------------
(* GetMatchingDepsEntries *)

\* The index passed to GetMatchingDepsEntries has at most this many paths.
MaxMatchPaths == 2

\* In a path the character '/' is 3.
SLASH == 3

\* The paths: the strings of one to three characters among 1, 2 and '/'.
MatchPaths == UNION { [1..n -> {1, 2, SLASH}] : n \in 1..3 }

\* `all(part == parts[i] for i, part in enumerate(dir_parts))`: the first
\* position that is beyond `parts` or differs decides.
AllPartsMatch(parts, dir_parts) ==
  LET stops == { i \in 1..Len(dir_parts) :
                   i > Len(parts) \/ dir_parts[i] # parts[i] }
      first == CHOOSE i \in stops : \A j \in stops : i <= j
  IN IF stops = {} THEN "True"
     ELSE IF first > Len(parts) THEN "IndexError"
     ELSE "False"

\* The body of the loop for `path`: "True" if its entry is appended, "False"
\* if not, "IndexError" if parts[i] is out of range.
Matches(path, dir_path) ==
  IF path = dir_path
    THEN "True"
    ELSE AllPartsMatch(Split(path, SLASH), Split(dir_path, SLASH))

\* The loop appends the entry of `path`.
MatchAppend(path) ==
  /\ pc = "match" /\ path \in match_todo
  /\ Matches(path, match_args.dir_path) = "True"
  /\ match_result' = Append(match_result, match_args.depsentry_dict[path])
  /\ match_todo' = match_todo \ {path}
  /\ UNCHANGED <<diffVars, buildVars, messageVars, mainVars, pc, error,
                 match_args>>

\* The loop passes over `path`.
MatchPass(path) ==
  /\ pc = "match" /\ path \in match_todo
  /\ Matches(path, match_args.dir_path) = "False"
  /\ match_todo' = match_todo \ {path}
  /\ UNCHANGED <<diffVars, buildVars, messageVars, mainVars, pc, error,
                 match_args, match_result>>

\* parts[i] raises IndexError for `path`.
MatchRaises(path) ==
  /\ pc = "match" /\ path \in match_todo
  /\ Matches(path, match_args.dir_path) = "IndexError"
  /\ pc' = "raised"
  /\ error' = [exception |-> "IndexError", path |-> path]
  /\ UNCHANGED <<diffVars, buildVars, messageVars, mainVars, matchVars>>

\* `return result`
MatchReturn ==
  /\ pc = "match" /\ match_todo = {}
  /\ pc' = "returned"
  /\ UNCHANGED <<diffVars, buildVars, messageVars, mainVars, matchVars, error>>

\* The subsets of S of at most n elements.
RECURSIVE SubsetsUpTo(_, _)
SubsetsUpTo(S, n) ==
  IF n = 0 THEN {{}}
  ELSE LET smaller == SubsetsUpTo(S, n - 1)
       IN smaller \cup { T \cup {x} : T \in smaller, x \in S }

\* The state at the head of the loop, for any index of at most MaxMatchPaths
\* paths and any dir_path.
InitMatch ==
  /\ \E keys \in SubsetsUpTo(MatchPaths, MaxMatchPaths),
        dir_path \in MatchPaths :
       /\ match_args =
            [depsentry_dict |-> [path \in keys |-> DepsEntry(path, <<1>>, <<1>>)],
             dir_path |-> dir_path]
       /\ match_todo = keys
  /\ match_result = <<>>
  /\ pc = "match"
  /\ error = [exception |-> "none", path |-> 0]
  /\ DiffIdle /\ BuildIdle /\ MessageIdle /\ MainIdle

NextMatch ==
  \/ \E path \in MatchPaths : MatchAppend(path)
  \/ \E path \in MatchPaths : MatchPass(path)
  \/ \E path \in MatchPaths : MatchRaises(path)
  \/ MatchReturn

SpecMatch == InitMatch /\ [][NextMatch]_vars

-----------------------------------------------------------------------------
(* Properties of GetMatchingDepsEntries *)

\* `dir_path` is `path` or a prefix of it made of whole components.
ComponentPrefix(dir_path, path) ==
  LET parts == Split(path, SLASH)
      dir_parts == Split(dir_path, SLASH)
  IN /\ Len(dir_parts) <= Len(parts)
     /\ \A i \in 1..Len(dir_parts) : dir_parts[i] = parts[i]

\* C14: the call never raises, and returns each entry whose path is dir_path
\* or has dir_path as a prefix of whole components, once, and no other entry.
C14_MatchesComponentPrefixNeverRaises ==
  /\ pc # "raised"
  /\ pc = "returned" =>
       /\ { match_result[i] : i \in 1..Len(match_result) } =
            { match_args.depsentry_dict[path] :
                path \in { q \in DOMAIN match_args.depsentry_dict :
                             ComponentPrefix(match_args.dir_path, q) } }
       /\ \A i, j \in 1..Len(match_result) :
            i # j => match_result[i] # match_result[j]

-----------------------------------------------------------------------------
(* main *)

ROLL_BRANCH_NAME == "roll_chromium_revision"

\* ChooseCQMode
ChooseCQMode(skip_cq, cq_over, current_commit_pos, new_commit_pos) ==
  IF skip_cq THEN 0
  ELSE IF (new_commit_pos - current_commit_pos) < cq_over THEN 1
  ELSE 2

\* _IsTreeClean: the command it runs.
IsTreeCleanCommands == << <<"git", "status", "--porcelain">> >>

\* _RemovePreviousRollBranch: the commands it runs.
RemovePreviousRollBranchCommands(dry_run, active, roll_branch_exists) ==
  << <<"git", "branch">> >>
    \o (IF roll_branch_exists /\ ~dry_run
          THEN << <<"git", "checkout",
                    IF active = ROLL_BRANCH_NAME THEN "master" ELSE active>>,
                  <<"git", "branch", "-D", ROLL_BRANCH_NAME>> >>
          ELSE <<>>)

\* _EnsureUpdatedMasterBranch exits after its first command.
EnsureExits(dry_run, current_branch) ==
  current_branch # "master" /\ ~dry_run

\* _EnsureUpdatedMasterBranch: the commands it runs.
EnsureUpdatedMasterBranchCommands(dry_run, current_branch) ==
  << <<"git", "rev-parse", "--abbrev-ref", "HEAD">> >>
    \o (IF EnsureExits(dry_run, current_branch)
          THEN <<>> ELSE << <<"git", "pull">> >>)

\* GetRollRevisionRanges: the commands it runs.
GetRollRevisionRangesCommands(revision, third_party_revision) ==
  (IF ~revision
     THEN << <<"git", "ls-remote",
               "https://chromium.googlesource.com/chromium/src", "HEAD">> >>
     ELSE <<>>)
    \o (IF ~third_party_revision
          THEN << <<"git", "ls-remote",
                    "https://chromium.googlesource.com/chromium/src/third_party",
                    "HEAD">> >>
          ELSE <<>>)

\* CalculateChangedDeps and GenerateCommitMessage: the commands they run for
\* n dependencies that Chromium does not have.
ComputeCommands(n) ==
  [i \in 1..n |-> <<"git", "ls-remote", "url", "HEAD">>]
    \o << <<"git", "config", "user.email">> >>

\* The branch created in a dry run too: a plausible slip.
CreateRollBranchAlways(dry_run) ==
  << <<"git", "checkout", "-b", ROLL_BRANCH_NAME>> >>

\* _CreateRollBranch: the commands it runs.
CreateRollBranchCommands(dry_run) ==
  IF ~dry_run THEN << <<"git", "checkout", "-b", ROLL_BRANCH_NAME>> >>
              ELSE <<>>

\* UpdateThirdPartyDeps: the commands it runs.
UpdateThirdPartyDepsCommands ==
  << <<"git", "fetch", "origin", "new_rev">>,
     <<"git", "--git-dir", "third_party_chromium/.git", "checkout",
       "new_rev">> >>

\* UpdateDepsFile: the file it writes and the commands it runs for n changed
\* dependencies.
UpdateDepsFileCommands(n) ==
  << <<"write", "DEPS">> >>
    \o [i \in 1..n |-> <<"gclient", "setdep", "--revision", "update">>]

\* _LocalCommit: the commands it runs.
LocalCommitCommands(dry_run) ==
  IF ~dry_run
    THEN << <<"git", "add", "--update", ".">>,
            <<"git", "add", "-A", "third_party">>,
            <<"git", "commit", "-m", "commit_msg">> >>
    ELSE <<>>

\* _UploadCL: the command it runs.
UploadCLCommands(commit_queue_mode) ==
  << <<"git", "cl", "upload", "-f", "--gerrit">>
       \o (IF commit_queue_mode >= 2
             THEN <<"--use-commit-queue", "--send-mail">>
           ELSE IF commit_queue_mode >= 1 THEN <<"--cq-dry-run">>
           ELSE <<>>) >>

\* main from `if _IsTreeClean()` at its end: the commands it runs.
FinishCommands(dry_run, skip_cq, cq_over, commit_pos_delta, clean_after) ==
  IsTreeCleanCommands
    \o (IF clean_after
          THEN <<>>
          ELSE LocalCommitCommands(dry_run)
                 \o (IF ~dry_run
                       THEN UploadCLCommands(
                              ChooseCQMode(skip_cq, cq_over, 0,
                                           commit_pos_delta))
                       ELSE <<>>))

\* The commands main runs at the position `step`, if none of them fails.
MainCommands(step) ==
  CASE step = "main" ->
         IF ~opts.ignore_unclean_workdir THEN IsTreeCleanCommands ELSE <<>>
    [] step = "clean" ->
         IF opts.clean
           THEN RemovePreviousRollBranchCommands(opts.dry_run, world.active,
                                                 world.roll_branch_exists)
           ELSE <<>>
    [] step = "ensure" ->
         IF ~opts.ignore_unclean_workdir
           THEN EnsureUpdatedMasterBranchCommands(opts.dry_run, world.active)
           ELSE <<>>
    [] step = "ranges" ->
         GetRollRevisionRangesCommands(opts.revision,
                                       opts.third_party_revision)
    [] step = "compute" -> ComputeCommands(world.changed_deps)
    [] step = "branch" -> CreateRollBranchCommands(opts.dry_run)
    [] step = "third_party" -> UpdateThirdPartyDepsCommands
    [] step = "deps" -> UpdateDepsFileCommands(world.changed_deps)
    [] step = "finish" ->
         FinishCommands(opts.dry_run, opts.skip_cq, opts.cq_over,
                        world.commit_pos_delta, world.clean_after)
    [] OTHER -> <<>>

\* main goes on to `next` after the commands of its position.
Proceed(next) ==
  /\ ran' = ran \o MainCommands(pc)
  /\ pc' = next
  /\ UNCHANGED <<diffVars, buildVars, messageVars, matchVars, error, opts>>

\* main ends with an exception or sys.exit after the commands `done`.
Abort(done, exception) ==
  /\ ran' = ran \o done
  /\ pc' = "raised"
  /\ error' = [exception |-> exception, path |-> 0]
  /\ UNCHANGED <<diffVars, buildVars, messageVars, matchVars, opts, world>>

\* `if not opts.ignore_unclean_workdir and not _IsTreeClean(): return 1`
MainCheckTree ==
  /\ pc = "main"
  /\ Proceed(IF ~opts.ignore_unclean_workdir /\ ~world.tree_clean
               THEN "refused" ELSE "clean")
  /\ UNCHANGED world

\* `if opts.clean: _RemovePreviousRollBranch(opts.dry_run)`
MainRemovePreviousRollBranch ==
  /\ pc = "clean"
  /\ Proceed("ensure")
  /\ world' =
       IF opts.clean /\ world.roll_branch_exists /\ ~opts.dry_run
         THEN [world EXCEPT
                 !.active = IF @ = ROLL_BRANCH_NAME THEN "master" ELSE @,
                 !.roll_branch_exists = FALSE]
         ELSE world

\* `if not opts.ignore_unclean_workdir: _EnsureUpdatedMasterBranch(...)`
MainEnsureUpdatedMasterBranch ==
  /\ pc = "ensure"
  /\ IF /\ ~opts.ignore_unclean_workdir
        /\ EnsureExits(opts.dry_run, world.active)
       THEN Abort(MainCommands(pc), "SystemExit")
       ELSE Proceed("parse") /\ UNCHANGED world

\* ParseLocalDepsFile and the test for third_party_chromium.
MainParseLocalDeps ==
  /\ pc = "parse"
  /\ IF ~world.cr_3p_repo THEN Abort(<<>>, "RollError")
                          ELSE Proceed("ranges") /\ UNCHANGED world

\* GetRollRevisionRanges
MainGetRollRevisionRanges ==
  /\ pc = "ranges"
  /\ Proceed("compute")
  /\ UNCHANGED world

\* The commit positions, Chromium's DEPS, CalculateChangedDeps,
\* CalculateChangedClang and GenerateCommitMessage.
MainCompute ==
  /\ pc = "compute"
  /\ Proceed("branch")
  /\ UNCHANGED world

\* A read of a remote file or its parsing fails.
MainComputeRaises ==
  /\ pc = "compute"
  /\ Abort(<<>>, "Exception")

\* _CreateRollBranch
MainCreateRollBranch ==
  /\ pc = "branch"
  /\ Proceed("third_party")
  /\ world' = IF opts.dry_run THEN world
              ELSE [world EXCEPT !.active = ROLL_BRANCH_NAME,
                                 !.roll_branch_exists = TRUE]

\* UpdateThirdPartyDeps
MainUpdateThirdPartyDeps ==
  /\ pc = "third_party"
  /\ Proceed("deps")
  /\ UNCHANGED world

\* UpdateDepsFile
MainUpdateDepsFile ==
  /\ pc = "deps"
  /\ Proceed("finish")
  /\ UNCHANGED world

\* UpdateDepsFile does not find the directory of a changed dependency.
MainUpdateDepsFileRaises ==
  /\ pc = "deps"
  /\ world.changed_deps > 0
  /\ Abort(SubSeq(UpdateDepsFileCommands(world.changed_deps), 1, 1),
           "RollError")

\* The commit and the upload, unless the tree is clean; `return 0`.
MainFinish ==
  /\ pc = "finish"
  /\ Proceed("returned")
  /\ UNCHANGED world

\* A command of the position fails: _RunCommand ends the process.
MainCommandFails ==
  /\ pc \in {"main", "clean", "ensure", "ranges", "compute", "branch",
             "third_party", "deps", "finish"}
  /\ \E k \in 1..Len(MainCommands(pc)) :
       Abort(SubSeq(MainCommands(pc), 1, k), "SystemExit")

\* The state at the start of main, for any command line and any checkout.
InitMain ==
  /\ opts \in [clean : BOOLEAN, dry_run : BOOLEAN,
               ignore_unclean_workdir : BOOLEAN, skip_cq : BOOLEAN,
               cq_over : {1}, revision : BOOLEAN,
               third_party_revision : BOOLEAN]
  /\ world \in { w \in [tree_clean : BOOLEAN,
                        active : {"master", ROLL_BRANCH_NAME, "feature"},
                        roll_branch_exists : BOOLEAN,
                        cr_3p_repo : BOOLEAN,
                        changed_deps : {0, 1},
                        commit_pos_delta : {0, 2},
                        clean_after : BOOLEAN] :
                   w.active = ROLL_BRANCH_NAME => w.roll_branch_exists }
  /\ ran = <<>>
  /\ pc = "main"
  /\ error = [exception |-> "none", path |-> 0]
  /\ DiffIdle /\ BuildIdle /\ MessageIdle /\ MatchIdle

NextMain ==
  \/ MainCheckTree
  \/ MainRemovePreviousRollBranch
  \/ MainEnsureUpdatedMasterBranch
  \/ MainParseLocalDeps
  \/ MainGetRollRevisionRanges
  \/ MainCompute
  \/ MainComputeRaises
  \/ MainCreateRollBranch
  \/ MainUpdateThirdPartyDeps
  \/ MainUpdateDepsFile
  \/ MainUpdateDepsFileRaises
  \/ MainFinish
  \/ MainCommandFails

SpecMain == InitMain /\ [][NextMain]_vars

-----------------------------------------------------------------------------
(* Properties of main *)

\* The commands that create or delete the roll branch, commit, or upload.
Forbidden(command) ==
  /\ Len(command) >= 3
  /\ \/ SubSeq(command, 1, 3) = <<"git", "checkout", "-b">>
     \/ SubSeq(command, 1, 3) = <<"git", "branch", "-D">>
     \/ SubSeq(command, 1, 2) = <<"git", "commit">>
     \/ SubSeq(command, 1, 3) = <<"git", "cl", "upload">>

\* `command` has been run.
HasRun(command) == \E i \in 1..Len(ran) : ran[i] = command

=============================================================================
